---- MODULE Spec2Model ----
(***************************************************************************)
(* Model of pystreamout.Streamer (src/pystreamout/pystreamout.py): the     *)
(* stream-monitoring lifecycle.  Caller threads invoke monitor and stop on *)
(* Streamer instances; every successful monitor spawns a worker thread     *)
(* that runs Streamer.__flush and prints the lines it reads to the shared  *)
(* standard output (the sink).                                             *)
(***************************************************************************)
EXTENDS Integers, Sequences, FiniteSets

\* ------------------------------------------------------------------ bounds
MaxOps == 2          \* monitor and stop calls the caller threads issue in one run
MaxThreads == 2      \* worker threads spawned in one run

\* ------------------------------------------------------- the model's inputs
Instances == {1, 2}
Streams == {1, 2}
Callers == {1, 2}
None == 0            \* Python's None, for object references and streams
EOF == 0             \* b"", the empty read
ValueError == -1     \* readline on a closed stream raises ValueError

VARIABLES
    nCallers,    \* number of caller threads of the program
    nInst,       \* number of Streamer instances the program constructs
    nStreams,    \* number of streams the program hands to monitor
    verbose,     \* verbose[i]: self.verbose
    exitRef,     \* exitRef[i]: self._exit, an index into events or None
    threadRef,   \* threadRef[i]: self._output_thread, an index into threads or None
    events,      \* events[e]: the flag of the e-th threading.Event created
    threads,     \* threads[t]: the t-th threading.Thread created
    pos,         \* pos[s]: items stream s has handed out so far
    closed,      \* closed[s]: stream.closed
    binaryIO,    \* binaryIO[s]: isinstance(stream, BinaryIO)
    sink,        \* what has been written to standard output, in order
    call,        \* call[c]: the call caller thread c is executing
    ops,         \* calls issued so far
    token,       \* the caller has printed its sentinel
    stopped      \* stopped[i]: lines instance i had written when its last stop() returned, or -1

vars == <<nCallers, nInst, nStreams, verbose, exitRef, threadRef, events, threads, pos, closed,
          binaryIO, sink, call, ops, token, stopped>>

\* ---------------------------------------------------------------- streams
\* what every stream holds: a burst of two lines and the empty read that ends
\* it (the shape of the tests' data); every later read is empty as well
StreamData == <<1, 2, EOF>>

StreamLen == Len(StreamData)

\* the p-th item stream s holds
Item(s, p) == StreamData[p]

\* stream.readline(): the value returned (or the ValueError raised)
ReadLine(s) ==
    IF closed[s] THEN ValueError
    ELSE IF pos[s] < StreamLen THEN Item(s, pos[s] + 1)
    ELSE EOF

\* the read position after stream.readline()
ReadPos(s) == IF ~closed[s] /\ pos[s] < StreamLen THEN pos[s] + 1 ELSE pos[s]

\* isinstance(stream, BinaryIO)
IsBinaryIO(s) == binaryIO[s]

\* ---------------------------------------------------------------- threads
\* Thread.is_alive(): started and not yet finished
IsAlive(t) == threads[t].pc \notin {"new", "dead"}

\* a caller thread between two calls; Returned: monitor has just started a worker
\* and returned, and the caller has done nothing since (inst, stream: the
\* receiver and the argument of the call in progress; target: the thread stop
\* joins; exit: the Event monitor has created)
Idle == [pc |-> "idle", inst |-> None, stream |-> None, target |-> None, exit |-> None]

Returned == [pc |-> "returned", inst |-> None, stream |-> None, target |-> None, exit |-> None]

AtRest(c) == call[c].pc \in {"idle", "returned"}

\* bytes.decode(): the text of a line of bytes
Decode(b) == <<"str", b>>

\* a message of Streamer._messages, or the caller's sentinel
Message == <<"msg", 0>>

\* one print to standard output: the entry it appends (by: the worker that
\* prints, None for a caller thread)
Entry(kind, i, t, s, x) == [kind |-> kind, inst |-> i, by |-> t, stream |-> s, text |-> x]

\* Streamer.print: the message is printed when the instance is verbose
Log(i, kind, t) == IF verbose[i] THEN Append(sink, Entry(kind, i, t, None, Message)) ELSE sink

\* mutant of IsMonitoring: the "not" before self._exit.is_set() is missing
IsMonitoringNegated(i) ==
    /\ threadRef[i] # None
    /\ IsAlive(threadRef[i])
    /\ events[exitRef[i]]

\* mutant of IsMonitoring: the exit signal is not consulted
IsMonitoringIgnoresExit(i) ==
    /\ threadRef[i] # None
    /\ IsAlive(threadRef[i])

\* Streamer.is_monitoring
IsMonitoring(i) ==
    /\ threadRef[i] # None
    /\ IsAlive(threadRef[i])
    /\ ~events[exitRef[i]]

\* self._exit.is_set(), for an instance that has an exit signal
ExitSet(i) == exitRef[i] # None /\ events[exitRef[i]]

\* lines of instance i in the sink
LinesOf(i) == Len(SelectSeq(sink, LAMBDA e : e.kind = "line" /\ e.inst = i))

\* ------------------------------------------------------------------- Init
\* a thread object as Thread(target=self.__flush, args=(stream,)) creates it;
\* exit: the Event the monitor call that creates the thread has made at line 117
NewThread(i, s, e) ==
    [inst |-> i, stream |-> s, exit |-> e, pc |-> "new", line |-> 0, buffer_size |-> 0,
     yields |-> FALSE, eof |-> FALSE, err |-> FALSE, late |-> FALSE]

\* Streamer.__init__(stream=None), for every instance
Constructed ==
    /\ exitRef = [i \in Instances |-> None]
    /\ threadRef = [i \in Instances |-> None]
    /\ events = <<>>
    /\ threads = <<>>
    /\ call = [c \in Callers |-> Idle]

\* Streamer.__init__(stream=1) for instance 1: the constructor has called
\* monitor, the worker is started and caller 1 has the instance back
ConstructedWithStream ==
    /\ exitRef = [i \in Instances |-> IF i = 1 THEN 1 ELSE None]
    /\ threadRef = [i \in Instances |-> IF i = 1 THEN 1 ELSE None]
    /\ events = <<FALSE>>
    /\ threads = <<[NewThread(1, 1, 1) EXCEPT !.pc = "loop"]>>
    /\ call = [c \in Callers |-> IF c = 1 THEN Returned ELSE Idle]

\* the rest of the initial state; V: the values of the verbose argument
InitRest(V) ==
    /\ \E v \in V : verbose = [i \in Instances |-> v]
    /\ binaryIO = [s \in Streams |-> TRUE]
    /\ pos = [s \in Streams |-> 0]
    /\ closed = [s \in Streams |-> FALSE]
    /\ sink = <<>>
    /\ ops = 0
    /\ token = FALSE
    /\ stopped = [i \in Instances |-> -1]

\* one caller thread and one instance; the streams are BinaryIO objects, as
\* those of the tests are
Init ==
    /\ nCallers = 1 /\ nInst = 1 /\ nStreams = 2
    /\ Constructed \/ ConstructedWithStream
    /\ InitRest(BOOLEAN)

\* one caller thread and two instances, constructed with the default verbose=False
InitTwo ==
    /\ nCallers = 1 /\ nInst = 2 /\ nStreams = 2
    /\ Constructed \/ ConstructedWithStream
    /\ InitRest({FALSE})

\* one or two caller threads sharing one instance, which was constructed with
\* the program's one stream and the default verbose=False
InitMT ==
    /\ nCallers \in {1, 2} /\ nInst = 1 /\ nStreams = 1
    /\ ConstructedWithStream
    /\ InitRest({FALSE})

\* one caller thread and one instance with the default verbose=False; stream 1
\* is a pipe of a child process (process.stdout, an io.BufferedReader), which
\* is not an instance of typing.BinaryIO, and stream 2 is one that is
InitPipe ==
    /\ nCallers = 1 /\ nInst = 1 /\ nStreams = 2
    /\ Constructed \/ ConstructedWithStream
    /\ verbose = [i \in Instances |-> FALSE]
    /\ binaryIO = [s \in Streams |-> s # 1]
    /\ pos = [s \in Streams |-> 0]
    /\ closed = [s \in Streams |-> FALSE]
    /\ sink = <<>>
    /\ ops = 0
    /\ token = FALSE
    /\ stopped = [i \in Instances |-> -1]

\* ------------------------------------------------------- caller: monitor
\* instances and streams are interchangeable: the first one the program uses
\* is called 1
FirstUse(i, s) ==
    /\ i <= nInst /\ s <= nStreams
    /\ i = 2 => ops > 0 \/ threads # <<>>
    /\ s = 2 => \/ threads # <<>>
                \/ \E c \in Callers : call[c].stream = 1

\* mutant of Monitor: the "already monitoring" guard is missing
MonitorUnguarded(c, i, s) ==
    /\ c <= nCallers /\ AtRest(c) /\ ops < MaxOps
    /\ FirstUse(i, s)
    /\ ops' = ops + 1
    /\ IF s = None
       THEN /\ sink' = Log(i, "stream_none", None)
            /\ call' = [call EXCEPT ![c] = Idle]
       ELSE /\ Len(threads) + Cardinality({d \in Callers : call[d].pc \in {"mon_exit", "mon_thread"}}) < MaxThreads
            /\ sink' = sink
            /\ call' = [call EXCEPT ![c] = [pc |-> "mon_exit", inst |-> i, stream |-> s, target |-> None, exit |-> None]]
    /\ UNCHANGED <<nCallers, nInst, nStreams, verbose, exitRef, threadRef, events, threads, pos, closed, binaryIO, token, stopped>>

\* mutant of Monitor: the "stream is None" guard is missing
MonitorNoNoneGuard(c, i, s) ==
    /\ c <= nCallers /\ AtRest(c) /\ ops < MaxOps
    /\ FirstUse(i, s)
    /\ ops' = ops + 1
    /\ IF IsMonitoring(i)
       THEN /\ sink' = Log(i, "already_monitoring", None)
            /\ call' = [call EXCEPT ![c] = Idle]
       ELSE /\ Len(threads) + Cardinality({d \in Callers : call[d].pc \in {"mon_exit", "mon_thread"}}) < MaxThreads
            /\ sink' = sink
            /\ call' = [call EXCEPT ![c] = [pc |-> "mon_exit", inst |-> i, stream |-> s, target |-> None, exit |-> None]]
    /\ UNCHANGED <<nCallers, nInst, nStreams, verbose, exitRef, threadRef, events, threads, pos, closed, binaryIO, token, stopped>>

\* monitor(stream=s) on instance i, lines 109-115: the call and its two guards
Monitor(c, i, s) ==
    /\ c <= nCallers /\ AtRest(c) /\ ops < MaxOps
    /\ FirstUse(i, s)
    /\ ops' = ops + 1
    /\ IF IsMonitoring(i)
       THEN /\ sink' = Log(i, "already_monitoring", None)
            /\ call' = [call EXCEPT ![c] = Idle]
       ELSE IF s = None
       THEN /\ sink' = Log(i, "stream_none", None)
            /\ call' = [call EXCEPT ![c] = Idle]
       ELSE /\ Len(threads) + Cardinality({d \in Callers : call[d].pc \in {"mon_exit", "mon_thread"}}) < MaxThreads
            /\ sink' = sink
            /\ call' = [call EXCEPT ![c] = [pc |-> "mon_exit", inst |-> i, stream |-> s, target |-> None, exit |-> None]]
    /\ UNCHANGED <<nCallers, nInst, nStreams, verbose, exitRef, threadRef, events, threads, pos, closed, binaryIO, token, stopped>>

\* mutant of MonitorExit: the exit signal is created once and reused afterwards
MonitorExitReuse(c) ==
    /\ call[c].pc = "mon_exit"
    /\ IF exitRef[call[c].inst] = None
       THEN /\ events' = Append(events, FALSE)
            /\ exitRef' = [exitRef EXCEPT ![call[c].inst] = Len(events) + 1]
       ELSE UNCHANGED <<events, exitRef>>
    /\ call' = [call EXCEPT ![c].pc = "mon_thread", ![c].exit = exitRef'[call[c].inst]]
    /\ UNCHANGED <<nCallers, nInst, nStreams, verbose, threadRef, threads, pos, closed, binaryIO, sink, ops, token, stopped>>

\* monitor, line 117: self._exit = Event()
MonitorExit(c) ==
    /\ call[c].pc = "mon_exit"
    /\ events' = Append(events, FALSE)
    /\ exitRef' = [exitRef EXCEPT ![call[c].inst] = Len(events) + 1]
    /\ call' = [call EXCEPT ![c].pc = "mon_thread", ![c].exit = Len(events) + 1]
    /\ UNCHANGED <<nCallers, nInst, nStreams, verbose, threadRef, threads, pos, closed, binaryIO, sink, ops, token, stopped>>

\* monitor, lines 119-120: self._output_thread = Thread(target=self.__flush, args=(stream,))
MonitorThread(c) ==
    /\ call[c].pc = "mon_thread"
    /\ threads' = Append(threads, NewThread(call[c].inst, call[c].stream, call[c].exit))
    /\ threadRef' = [threadRef EXCEPT ![call[c].inst] = Len(threads) + 1]
    /\ stopped' = [stopped EXCEPT ![call[c].inst] = -1]
    /\ call' = [call EXCEPT ![c].pc = "mon_start"]
    /\ UNCHANGED <<nCallers, nInst, nStreams, verbose, exitRef, events, pos, closed, binaryIO, sink, ops, token>>

\* mutant of MonitorStart: monitor joins the worker it has started
MonitorStartBlocking(c) ==
    /\ call[c].pc = "mon_start"
    /\ LET t == threadRef[call[c].inst]
       IN /\ threads' = IF threads[t].pc = "new"
                        THEN [threads EXCEPT ![t].pc = "loop"]
                        ELSE threads
          /\ call' = [call EXCEPT ![c].pc = "joining", ![c].target = t]
    /\ UNCHANGED <<nCallers, nInst, nStreams, verbose, exitRef, threadRef, events, pos, closed, binaryIO, sink, ops, token, stopped>>

\* monitor, line 121: self._output_thread.start(), and the return to the caller
MonitorStart(c) ==
    /\ call[c].pc = "mon_start"
    /\ LET t == threadRef[call[c].inst]
       IN threads' = IF threads[t].pc = "new"
                     THEN [threads EXCEPT ![t].pc = "loop"]
                     ELSE threads
    /\ call' = [call EXCEPT ![c] = Returned]
    /\ UNCHANGED <<nCallers, nInst, nStreams, verbose, exitRef, threadRef, events, pos, closed, binaryIO, sink, ops, token, stopped>>

\* ---------------------------------------------------------- caller: stop
\* mutant of Stop: the "not monitoring" guard is missing
StopUnguarded(c, i) ==
    /\ c <= nCallers /\ AtRest(c) /\ ops < MaxOps
    /\ FirstUse(i, None)
    /\ ops' = ops + 1
    /\ call' = [call EXCEPT ![c] = [pc |-> "stop_set", inst |-> i, stream |-> None, target |-> None, exit |-> None]]
    /\ UNCHANGED <<nCallers, nInst, nStreams, verbose, exitRef, threadRef, events, threads, pos, closed, binaryIO, sink, token, stopped>>

\* stop() on instance i, lines 127-129: the call and its guard
Stop(c, i) ==
    /\ c <= nCallers /\ AtRest(c) /\ ops < MaxOps
    /\ FirstUse(i, None)
    /\ ops' = ops + 1
    /\ IF ~IsMonitoring(i)
       THEN /\ sink' = Log(i, "stop_but_not_monitoring", None)
            /\ call' = [call EXCEPT ![c] = Idle]
            /\ stopped' = [stopped EXCEPT ![i] = LinesOf(i)]
       ELSE /\ sink' = sink
            /\ call' = [call EXCEPT ![c] = [pc |-> "stop_set", inst |-> i, stream |-> None, target |-> None, exit |-> None]]
            /\ stopped' = stopped
    /\ UNCHANGED <<nCallers, nInst, nStreams, verbose, exitRef, threadRef, events, threads, pos, closed, binaryIO, token>>

\* mutant of StopSet: one exit signal is shared by all instances
StopSetAll(c) ==
    /\ call[c].pc = "stop_set"
    /\ events' = [e \in DOMAIN events |-> TRUE]
    /\ call' = [call EXCEPT ![c].pc = "stop_join"]
    /\ UNCHANGED <<nCallers, nInst, nStreams, verbose, exitRef, threadRef, threads, pos, closed, binaryIO, sink, ops, token, stopped>>

\* stop, line 131: self._exit.set()
StopSet(c) ==
    /\ call[c].pc = "stop_set"
    /\ events' = [events EXCEPT ![exitRef[call[c].inst]] = TRUE]
    /\ call' = [call EXCEPT ![c].pc = "stop_join"]
    /\ UNCHANGED <<nCallers, nInst, nStreams, verbose, exitRef, threadRef, threads, pos, closed, binaryIO, sink, ops, token, stopped>>

\* stop, lines 133-134: time.sleep(0), then join is called on self._output_thread
StopJoin(c) ==
    /\ call[c].pc = "stop_join"
    /\ call' = [call EXCEPT ![c].pc = "joining", ![c].target = threadRef[call[c].inst]]
    /\ UNCHANGED <<nCallers, nInst, nStreams, verbose, exitRef, threadRef, events, threads, pos, closed, binaryIO, sink, ops, token, stopped>>

\* mutant of JoinDone: stop does not wait for the worker
JoinNoWait(t) == TRUE

\* Thread.join(): blocks until the thread has finished
JoinDone(t) == ~IsAlive(t)

\* mutant of StopReturn: stop forgets the worker it has joined
StopReturnClearsHandle(c) ==
    /\ call[c].pc = "joining"
    /\ JoinDone(call[c].target)
    /\ stopped' = [stopped EXCEPT ![call[c].inst] = LinesOf(call[c].inst)]
    /\ threadRef' = [threadRef EXCEPT ![call[c].inst] = None]
    /\ call' = [call EXCEPT ![c] = Idle]
    /\ UNCHANGED <<nCallers, nInst, nStreams, verbose, exitRef, events, threads, pos, closed, binaryIO, sink, ops, token>>

\* stop, line 134: join returns, and stop returns to the caller
StopReturn(c) ==
    /\ call[c].pc = "joining"
    /\ JoinDone(call[c].target)
    /\ stopped' = [stopped EXCEPT ![call[c].inst] = LinesOf(call[c].inst)]
    /\ call' = [call EXCEPT ![c] = Idle]
    /\ UNCHANGED <<nCallers, nInst, nStreams, verbose, exitRef, threadRef, events, threads, pos, closed, binaryIO, sink, ops, token>>

\* ----------------------------------------------- caller: print a sentinel
\* right after monitor has returned, the caller prints a sentinel to standard
\* output itself (test_non_blocking, lines 98-99)
PrintToken(c) ==
    /\ c <= nCallers /\ call[c].pc = "returned" /\ ~token
    /\ sink' = Append(sink, Entry("token", None, None, None, Message))
    /\ token' = TRUE
    /\ call' = [call EXCEPT ![c] = Idle]
    /\ UNCHANGED <<nCallers, nInst, nStreams, verbose, exitRef, threadRef, events, threads, pos, closed, binaryIO, ops, stopped>>

\* ------------------------------------------------------------ environment
\* the owner of stream s closes it, once it has handed it to monitor
CloseStream(s) ==
    /\ ~closed[s]
    /\ \E t \in DOMAIN threads : threads[t].stream = s
    /\ closed' = [closed EXCEPT ![s] = TRUE]
    /\ UNCHANGED <<nCallers, nInst, nStreams, verbose, exitRef, threadRef, events, threads, pos, binaryIO, sink, call, ops, token, stopped>>

\* ------------------------------------------------------ worker: __flush
\* __flush, lines 67-73: the condition of the while loop, read through self
LoopCond(t) ==
    LET i == threads[t].inst
        s == threads[t].stream
    IN /\ exitRef[i] # None
       /\ ~events[exitRef[i]]
       /\ s # None
       /\ IsBinaryIO(s)
       /\ ~closed[s]

\* __flush, lines 67-75: evaluate the loop condition; enter a burst or leave
WorkerLoop(t) ==
    /\ threads[t].pc = "loop"
    /\ threads' = IF LoopCond(t)
                  THEN [threads EXCEPT ![t].pc = "read", ![t].buffer_size = 0]
                  ELSE [threads EXCEPT ![t].pc = "cleanup"]
    /\ UNCHANGED <<nCallers, nInst, nStreams, verbose, exitRef, threadRef, events, pos, closed, binaryIO, sink, call, ops, token, stopped>>

\* mutant of WorkerRead: the empty read ends the worker, not only the burst
WorkerReadStopsAtEnd(t) ==
    /\ threads[t].pc = "read"
    /\ LET s == threads[t].stream
           r == ReadLine(s)
       IN /\ pos' = [pos EXCEPT ![s] = ReadPos(s)]
          /\ IF r = ValueError
             THEN /\ sink' = Log(threads[t].inst, "streamer_closed_early", t)
                  /\ threads' = [threads EXCEPT ![t].pc = "cleanup", ![t].err = TRUE]
             ELSE IF r = EOF
             THEN /\ sink' = sink
                  /\ threads' = [threads EXCEPT ![t].pc = "cleanup", ![t].eof = TRUE]
             ELSE /\ sink' = sink
                  /\ threads' = [threads EXCEPT ![t].pc = "print", ![t].line = r]
    /\ UNCHANGED <<nCallers, nInst, nStreams, verbose, exitRef, threadRef, events, closed, binaryIO, call, ops, token, stopped>>

\* mutant of WorkerRead: the handler of the read error runs the cleanup itself
WorkerReadCleansUp(t) ==
    /\ threads[t].pc = "read"
    /\ LET s == threads[t].stream
           r == ReadLine(s)
           i == threads[t].inst
       IN /\ pos' = [pos EXCEPT ![s] = ReadPos(s)]
          /\ IF r = ValueError
             THEN /\ sink' = IF verbose[i]
                             THEN sink \o <<Entry("streamer_closed_early", i, t, None, Message),
                                            Entry("finished", i, t, None, Message)>>
                             ELSE sink
                  /\ threads' = [threads EXCEPT ![t].pc = "cleanup", ![t].err = TRUE]
             ELSE IF r = EOF
             THEN /\ sink' = sink
                  /\ threads' = [threads EXCEPT ![t].pc = "loop", ![t].eof = TRUE]
             ELSE /\ sink' = sink
                  /\ threads' = [threads EXCEPT ![t].pc = "print", ![t].line = r]
    /\ UNCHANGED <<nCallers, nInst, nStreams, verbose, exitRef, threadRef, events, closed, binaryIO, call, ops, token, stopped>>

\* mutant of WorkerRead: the exit signal is tested before every read of a burst
WorkerReadChecksExit(t) ==
    /\ threads[t].pc = "read"
    /\ LET s == threads[t].stream
           r == ReadLine(s)
       IN IF ExitSet(threads[t].inst)
          THEN /\ pos' = pos /\ sink' = sink
               /\ threads' = [threads EXCEPT ![t].pc = "cleanup"]
          ELSE /\ pos' = [pos EXCEPT ![s] = ReadPos(s)]
               /\ IF r = ValueError
                  THEN /\ sink' = Log(threads[t].inst, "streamer_closed_early", t)
                       /\ threads' = [threads EXCEPT ![t].pc = "cleanup", ![t].err = TRUE]
                  ELSE IF r = EOF
                  THEN /\ sink' = sink
                       /\ threads' = [threads EXCEPT ![t].pc = "loop", ![t].eof = TRUE]
                  ELSE /\ sink' = sink
                       /\ threads' = [threads EXCEPT ![t].pc = "print", ![t].line = r]
    /\ UNCHANGED <<nCallers, nInst, nStreams, verbose, exitRef, threadRef, events, closed, binaryIO, call, ops, token, stopped>>

\* mutant of WorkerRead: the empty read does not end the burst
WorkerReadEndless(t) ==
    /\ threads[t].pc = "read"
    /\ LET s == threads[t].stream
           r == ReadLine(s)
       IN /\ pos' = [pos EXCEPT ![s] = ReadPos(s)]
          /\ IF r = ValueError
             THEN /\ sink' = Log(threads[t].inst, "streamer_closed_early", t)
                  /\ threads' = [threads EXCEPT ![t].pc = "cleanup", ![t].err = TRUE]
             ELSE IF r = EOF
             THEN /\ sink' = sink
                  /\ threads' = [threads EXCEPT ![t].eof = TRUE]
             ELSE /\ sink' = sink
                  /\ threads' = [threads EXCEPT ![t].pc = "print", ![t].line = r]
    /\ UNCHANGED <<nCallers, nInst, nStreams, verbose, exitRef, threadRef, events, closed, binaryIO, call, ops, token, stopped>>

\* __flush, lines 76 and 80-82: the next readline of iter(stream.readline, b"")
WorkerRead(t) ==
    /\ threads[t].pc = "read"
    /\ LET s == threads[t].stream
           r == ReadLine(s)
       IN /\ pos' = [pos EXCEPT ![s] = ReadPos(s)]
          /\ IF r = ValueError
             THEN /\ sink' = Log(threads[t].inst, "streamer_closed_early", t)
                  /\ threads' = [threads EXCEPT ![t].pc = "cleanup", ![t].err = TRUE]
             ELSE IF r = EOF
             THEN /\ sink' = sink
                  /\ threads' = [threads EXCEPT ![t].pc = "loop", ![t].eof = TRUE]
             ELSE /\ sink' = sink
                  /\ threads' = [threads EXCEPT ![t].pc = "print", ![t].line = r]
    /\ UNCHANGED <<nCallers, nInst, nStreams, verbose, exitRef, threadRef, events, closed, binaryIO, call, ops, token, stopped>>

\* __flush, line 78: the test that decides whether the worker yields
YieldDue(n) == n % 10 = 0

\* mutant of WorkerPrint: a line read is dropped once the exit signal is set
WorkerPrintUnlessStopped(t) ==
    /\ threads[t].pc = "print"
    /\ sink' = IF ExitSet(threads[t].inst)
               THEN sink
               ELSE Append(sink, Entry("line", threads[t].inst, t, threads[t].stream, Decode(threads[t].line)))
    /\ threads' = [threads EXCEPT ![t].line = 0, ![t].pc = "read"]
    /\ UNCHANGED <<nCallers, nInst, nStreams, verbose, exitRef, threadRef, events, pos, closed, binaryIO, call, ops, token, stopped>>

\* mutant of WorkerPrint: the counter is advanced for every line printed
WorkerPrintCounts(t) ==
    /\ threads[t].pc = "print"
    /\ sink' = Append(sink, Entry("line", threads[t].inst, t, threads[t].stream, Decode(threads[t].line)))
    /\ threads' = [threads EXCEPT ![t].line = 0, ![t].pc = "read",
                                  ![t].buffer_size = @ + 1,
                                  ![t].yields = @ \/ YieldDue(threads[t].buffer_size + 1),
                                  ![t].late = @ \/ ExitSet(threads[t].inst)]
    /\ UNCHANGED <<nCallers, nInst, nStreams, verbose, exitRef, threadRef, events, pos, closed, binaryIO, call, ops, token, stopped>>

\* __flush, lines 77-79: print(line.decode()), then time.sleep(0) when due
WorkerPrint(t) ==
    /\ threads[t].pc = "print"
    /\ sink' = Append(sink, Entry("line", threads[t].inst, t, threads[t].stream, Decode(threads[t].line)))
    /\ threads' = [threads EXCEPT ![t].line = 0, ![t].pc = "read",
                                  ![t].yields = @ \/ YieldDue(threads[t].buffer_size),
                                  ![t].late = @ \/ ExitSet(threads[t].inst)]
    /\ UNCHANGED <<nCallers, nInst, nStreams, verbose, exitRef, threadRef, events, pos, closed, binaryIO, call, ops, token, stopped>>

\* mutant of WorkerCleanup: the worker ends without the "finished" message
WorkerCleanupSilent(t) ==
    /\ threads[t].pc = "cleanup"
    /\ threads' = [threads EXCEPT ![t].pc = "dead"]
    /\ UNCHANGED <<nCallers, nInst, nStreams, verbose, exitRef, threadRef, events, pos, closed, binaryIO, sink, call, ops, token, stopped>>

\* mutant of WorkerCleanup: the cleanup sets the instance's exit signal
WorkerCleanupSetsExit(t) ==
    /\ threads[t].pc = "cleanup"
    /\ sink' = Log(threads[t].inst, "finished", t)
    /\ events' = [events EXCEPT ![exitRef[threads[t].inst]] = TRUE]
    /\ threads' = [threads EXCEPT ![t].pc = "dead"]
    /\ UNCHANGED <<nCallers, nInst, nStreams, verbose, exitRef, threadRef, pos, closed, binaryIO, call, ops, token, stopped>>

\* __flush, line 84, and _cleanup: log "finished"; the thread ends
WorkerCleanup(t) ==
    /\ threads[t].pc = "cleanup"
    /\ sink' = Log(threads[t].inst, "finished", t)
    /\ threads' = [threads EXCEPT ![t].pc = "dead"]
    /\ UNCHANGED <<nCallers, nInst, nStreams, verbose, exitRef, threadRef, events, pos, closed, binaryIO, call, ops, token, stopped>>

\* ------------------------------------------------------------------- Next
Next ==
    \/ \E c \in Callers, i \in Instances, s \in Streams \cup {None} : Monitor(c, i, s)
    \/ \E c \in Callers : MonitorExit(c)
    \/ \E c \in Callers : MonitorThread(c)
    \/ \E c \in Callers : MonitorStart(c)
    \/ \E c \in Callers, i \in Instances : Stop(c, i)
    \/ \E c \in Callers : StopSet(c)
    \/ \E c \in Callers : StopJoin(c)
    \/ \E c \in Callers : StopReturn(c)
    \/ \E c \in Callers : PrintToken(c)
    \/ \E s \in Streams : CloseStream(s)
    \/ \E t \in DOMAIN threads : WorkerLoop(t)
    \/ \E t \in DOMAIN threads : WorkerRead(t)
    \/ \E t \in DOMAIN threads : WorkerPrint(t)
    \/ \E t \in DOMAIN threads : WorkerCleanup(t)

\* one instance and one caller thread, the caller's main line of execution
Spec == Init /\ [][Next]_vars

\* one caller thread, two instances
SpecTwo == InitTwo /\ [][Next]_vars

\* one or two caller threads sharing one instance
SpecMT == InitMT /\ [][Next]_vars

\* one caller thread and one instance, monitoring the pipe of a child process
SpecPipe == InitPipe /\ [][Next]_vars

\* a step of worker thread t, and a step of caller c inside monitor or stop
WorkerStep(t) ==
    /\ t \in DOMAIN threads
    /\ WorkerLoop(t) \/ WorkerRead(t) \/ WorkerPrint(t) \/ WorkerCleanup(t)

CallStep(c) ==
    \/ MonitorExit(c) \/ MonitorThread(c) \/ MonitorStart(c)
    \/ StopSet(c) \/ StopJoin(c) \/ StopReturn(c)

\* the interpreter's thread switching lets every thread that can run do so:
\* a started worker and a caller inside a call keep taking their steps; new
\* calls, the sentinel and the closing of a stream are up to the program
Fairness ==
    /\ \A t \in 1..MaxThreads : WF_vars(WorkerStep(t))
    /\ \A c \in Callers : WF_vars(CallStep(c))

\* one instance and one caller thread, under fair scheduling of the threads
SpecFair == Init /\ [][Next]_vars /\ Fairness

\* ------------------------------------------------ what the claims speak of
\* the entries of the sink that are lines of stream s, and their texts
LineEntries(s) == SelectSeq(sink, LAMBDA e : e.kind = "line" /\ e.stream = s)

WrittenOf(s) == [k \in 1..Len(LineEntries(s)) |-> LineEntries(s)[k].text]

\* the texts of the non-empty lines stream s has handed out, in the order read
DeliveredItems(s) == SelectSeq(SubSeq(StreamData, 1, pos[s]), LAMBDA b : b # EOF)

Delivered(s) == [k \in 1..Len(DeliveredItems(s)) |-> Decode(DeliveredItems(s)[k])]

\* a worker has read a line of stream s and not printed it yet
Held(s) == \E t \in DOMAIN threads : threads[t].stream = s /\ threads[t].pc = "print"

\* the workers of instance i, and those of them that are alive
WorkersOf(i) == {t \in DOMAIN threads : threads[t].inst = i}

AliveOf(i) == {t \in WorkersOf(i) : IsAlive(t)}

\* what worker t has printed, in order
OutBy(t) == SelectSeq(sink, LAMBDA e : e.by = t)

KindsBy(t) == [k \in 1..Len(OutBy(t)) |-> OutBy(t)[k].kind]

Count(q, kind) == Cardinality({k \in 1..Len(q) : q[k] = kind})

AllAtRest == \A c \in Callers : AtRest(c)

\* ------------------------------------------------------------------- C1
\* C1: the lines of a stream that are in the sink are exactly the lines the
\* stream has delivered to its worker, in the order read, each once (but for a
\* line just read and not printed yet); and whenever the caller finds the
\* instance stopped (is_monitoring() false), every delivered line is written.
C1_Delivery ==
    /\ \A s \in Streams :
          WrittenOf(s) = IF Held(s)
                         THEN SubSeq(Delivered(s), 1, Len(Delivered(s)) - 1)
                         ELSE Delivered(s)
    /\ \A i \in Instances :
          AllAtRest /\ threadRef[i] # None /\ ~IsMonitoring(i)
             => \A t \in WorkersOf(i) : WrittenOf(threads[t].stream) = Delivered(threads[t].stream)

\* the worker of instance 1 has read both lines and the end marker of stream 1,
\* has written them and has terminated
C1_Witness ==
    /\ AllAtRest /\ threadRef[1] = 1 /\ ~IsMonitoring(1)
    /\ threads[1].eof /\ threads[1].pc = "dead"
    /\ WrittenOf(1) = <<Decode(1), Decode(2)>>

\* ------------------------------------------------------------------- C2
\* C2: once stop() has returned on an instance (and until monitor spawns its
\* next worker), is_monitoring() is false, no worker of the instance is alive
\* and the instance has written no line since the return.
C2_StopIsFinal ==
    \A i \in Instances :
        stopped[i] # -1 =>
            /\ ~IsMonitoring(i)
            /\ AliveOf(i) = {}
            /\ LinesOf(i) = stopped[i]

\* stop() has returned after a worker that printed a line of its burst while
\* the exit signal was already set
C2_Witness ==
    /\ stopped[1] = 2
    /\ threadRef[1] # None /\ threads[threadRef[1]].late
    /\ ExitSet(1)

\* ------------------------------------------------------------------- C3
\* C3 as stated: a worker that has read the end marker terminates, and so never
\* issues another read.
C3_EndMarkerTerminates ==
    \A t \in DOMAIN threads : threads[t].eof => threads[t].pc \notin {"read", "print"}

\* C3, amended: reading the end marker only ends the burst: the worker goes
\* back to the loop condition; and a worker leaves for cleanup only from the
\* loop condition when it is false (exit signal set, stream closed or not a
\* BinaryIO) or from a read that raised the closed-stream error.
C3_LeavesOnlyOnSignalCloseOrError ==
    [][\A t \in DOMAIN threads :
          /\ (threads[t].pc = "read" /\ threads'[t] # threads[t]
                /\ ReadLine(threads[t].stream) = EOF)
                => threads'[t].pc = "loop"
          /\ (threads[t].pc # "cleanup" /\ threads'[t].pc = "cleanup")
                => \/ threads[t].pc = "loop" /\ ~LoopCond(t)
                   \/ threads[t].pc = "read" /\ closed[threads[t].stream]]_vars

\* a worker that has read the end marker is reading again; stop() was not
\* called and the stream is open
C3_Witness ==
    \E t \in DOMAIN threads :
        /\ threads[t].eof /\ threads[t].pc = "read"
        /\ ~ExitSet(threads[t].inst) /\ ~closed[threads[t].stream]
        /\ ops = 0

\* ------------------------------------------------------------------- C4
\* C4 as stated: at most one worker of an instance is alive, whatever the
\* number of caller threads.
C4_OneWorker == \A i \in Instances : Cardinality(AliveOf(i)) <= 1

\* C4, amended: with monitor and stop called from one caller thread, at most
\* one worker of an instance is alive.
C4_OneWorkerOneCaller == nCallers = 1 => C4_OneWorker

\* one caller thread has stopped the first worker and started a second one
C4_Witness ==
    /\ nCallers = 1 /\ Len(threads) = 2
    /\ ~IsAlive(1) /\ IsAlive(2) /\ threads[2].inst = threads[1].inst

\* ------------------------------------------------------------------- C5
NoDuplicate(q) == \A j, k \in 1..Len(q) : j # k => q[j] # q[k]

\* C5: a monitor call that finds the instance monitoring returns at once and
\* changes no exit signal, no worker and no stream; it only logs "already
\* monitoring" when verbose; and no line of a stream is in the sink twice.
C5_MonitorWhileMonitoring ==
    /\ [](\A s \in Streams : NoDuplicate(WrittenOf(s)))
    /\ [][\A c \in Callers, i \in Instances, s \in Streams \cup {None} :
            (Monitor(c, i, s) /\ IsMonitoring(i)) =>
                /\ call'[c] = Idle
                /\ exitRef' = exitRef /\ threadRef' = threadRef
                /\ events' = events /\ threads' = threads
                /\ pos' = pos /\ closed' = closed
                /\ sink' = IF verbose[i]
                           THEN Append(sink, Entry("already_monitoring", i, None, None, Message))
                           ELSE sink]_vars

\* monitor was called while the worker was running, and the worker has then
\* written both lines of its stream
C5_Witness ==
    /\ \E k \in 1..Len(sink) : sink[k].kind = "already_monitoring"
    /\ Len(threads) = 1
    /\ WrittenOf(1) = <<Decode(1), Decode(2)>>

\* ------------------------------------------------------------------- C6
\* stream s was handed to workers of one instance only
Exclusive(s) ==
    \A t, u \in DOMAIN threads :
        threads[t].stream = s /\ threads[u].stream = s => threads[t].inst = threads[u].inst

\* what an instance consists of: its exit signal and the signal's flag, its
\* worker handle, its workers, and what is_monitoring() returns
InstState(i) ==
    <<exitRef[i], threadRef[i], ExitSet(i), [t \in WorkersOf(i) |-> threads[t]], IsMonitoring(i)>>

\* the step is one of a call on instance i, or of a worker of instance i
ActsOn(i) ==
    \/ \E c \in Callers : call'[c] # call[c] /\ i \in {call[c].inst, call'[c].inst}
    \/ \E t \in DOMAIN threads : threads'[t] # threads[t] /\ threads[t].inst = i

\* C6: with instances on streams of their own, the sink holds for each stream
\* exactly the lines it delivered, in the order read, each written by a worker
\* of the instance that monitors the stream; and a step changes the state of an
\* instance only if it is a step of a call on that instance or of its worker.
C6_Independent ==
    /\ [](/\ \A s \in Streams :
               Exclusive(s) =>
                  WrittenOf(s) = IF Held(s)
                                 THEN SubSeq(Delivered(s), 1, Len(Delivered(s)) - 1)
                                 ELSE Delivered(s)
          /\ \A k \in 1..Len(sink) :
               sink[k].kind = "line" =>
                  /\ sink[k].inst = threads[sink[k].by].inst
                  /\ sink[k].stream = threads[sink[k].by].stream)
    /\ [][/\ \A i \in Instances : InstState(i)' # InstState(i) => ActsOn(i)
          /\ Cardinality({i \in Instances : ActsOn(i)}) <= 1]_vars

\* two instances have monitored two streams at the same time; each has written
\* both lines of its stream, and the lines alternate in the sink
C6_Witness ==
    /\ Len(threads) = 2 /\ threads[1].inst # threads[2].inst
    /\ threads[1].stream # threads[2].stream
    /\ WrittenOf(1) = <<Decode(1), Decode(2)>>
    /\ WrittenOf(2) = <<Decode(1), Decode(2)>>
    /\ Len(sink) = 4
    /\ sink[1].by = sink[3].by /\ sink[2].by = sink[4].by /\ sink[1].by # sink[2].by

\* ------------------------------------------------------------------- C7
InMonitor(c) == call[c].pc \in {"mon_exit", "mon_thread", "mon_start"}

\* C7: a caller inside monitor can always take its next step, whatever the
\* workers and the streams do; and the step that starts the worker returns to
\* the caller with nothing read from a stream and nothing written to the sink.
C7_MonitorReturnsAtOnce ==
    /\ [](\A c \in Callers :
             InMonitor(c) => ENABLED (MonitorExit(c) \/ MonitorThread(c) \/ MonitorStart(c)))
    /\ [][\A c \in Callers :
             MonitorStart(c) =>
                /\ call'[c] = Returned
                /\ sink' = sink /\ pos' = pos
                /\ threads'[threadRef[call[c].inst]].pc = "loop"]_vars

\* the sentinel the caller printed after monitor returned precedes both lines
\* of the stream in the sink
C7_Witness ==
    /\ Len(sink) >= 3
    /\ sink[1].kind = "token"
    /\ WrittenOf(1) = <<Decode(1), Decode(2)>>
    /\ Len(threads) = 1

\* ------------------------------------------------------------------- C8
\* C8: monitor(None) on an instance that is not monitoring returns at once and
\* creates or changes no worker and no exit signal; it only logs "stream is
\* none" when verbose.
C8_MonitorNone ==
    [][\A c \in Callers, i \in Instances :
          (Monitor(c, i, None) /\ ~IsMonitoring(i)) =>
              /\ call'[c] = Idle
              /\ exitRef' = exitRef /\ threadRef' = threadRef
              /\ events' = events /\ threads' = threads
              /\ pos' = pos /\ closed' = closed
              /\ sink' = IF verbose[i]
                         THEN Append(sink, Entry("stream_none", i, None, None, Message))
                         ELSE sink]_vars

\* monitor(None) was called on the unstarted instance, which is still unstarted
C8_Witness ==
    /\ Len(sink) = 1 /\ sink[1].kind = "stream_none"
    /\ threadRef[1] = None /\ exitRef[1] = None /\ threads = <<>>
    /\ ops = 1 /\ AllAtRest

\* ------------------------------------------------------------------- C9
\* C9: stop() on an instance that is not monitoring returns at once, without
\* joining a worker, and changes no worker handle and no exit signal (it does
\* not set the signal); it only logs "stop called but not monitoring" when
\* verbose.
C9_StopNotMonitoring ==
    [][\A c \in Callers, i \in Instances :
          (Stop(c, i) /\ ~IsMonitoring(i)) =>
              /\ call'[c] = Idle
              /\ exitRef' = exitRef /\ threadRef' = threadRef
              /\ events' = events /\ threads' = threads
              /\ pos' = pos /\ closed' = closed
              /\ sink' = IF verbose[i]
                         THEN Append(sink, Entry("stop_but_not_monitoring", i, None, None, Message))
                         ELSE sink]_vars

\* stop() was called after the worker had terminated by itself: the exit signal
\* is still unset
C9_Witness ==
    /\ Len(sink) >= 1 /\ sink[Len(sink)].kind = "stop_but_not_monitoring"
    /\ threadRef[1] = 1 /\ threads[1].pc = "dead"
    /\ ~ExitSet(1) /\ AllAtRest

\* ------------------------------------------------------------------ C10
\* C10: a worker whose read raised the closed-stream error goes to cleanup and
\* terminates; a verbose instance's worker prints "closed while being read
\* from" once, then, as the next thing it prints, "finished" once; a worker
\* whose reads did not fail never prints the first message; and once the worker
\* is dead the instance is not monitoring.
C10_ClosedRead ==
    \A t \in DOMAIN threads :
        LET k == KindsBy(t)
            i == threads[t].inst
        IN /\ Count(k, "streamer_closed_early")
                 = IF threads[t].err /\ verbose[i] THEN 1 ELSE 0
           /\ threads[t].err => threads[t].pc \in {"cleanup", "dead"}
           /\ (threads[t].err /\ threads[t].pc = "cleanup" /\ verbose[i])
                 => k[Len(k)] = "streamer_closed_early" /\ Count(k, "finished") = 0
           /\ (threads[t].err /\ threads[t].pc = "dead") =>
                 /\ verbose[i] => /\ Len(k) >= 2
                                  /\ k[Len(k) - 1] = "streamer_closed_early"
                                  /\ k[Len(k)] = "finished"
                                  /\ Count(k, "finished") = 1
                 /\ ~verbose[i] => Count(k, "finished") = 0
                 /\ threadRef[i] = t => ~IsMonitoring(i)

\* the stream was closed while the worker was in its burst: the worker printed
\* a line, then the two messages, and is dead
C10_Witness ==
    /\ Len(threads) = 1 /\ threads[1].err /\ threads[1].pc = "dead"
    /\ KindsBy(1) = <<"line", "streamer_closed_early", "finished">>
    /\ ~IsMonitoring(1)

\* ------------------------------------------------------------------ C11
\* the worker created last for instance i (the one its handle names)
LastWorker(i) == CHOOSE t \in WorkersOf(i) : \A u \in WorkersOf(i) : u <= t

\* the thread has been started and its run of __flush has not returned
Running(t) == threads[t].pc \in {"loop", "read", "print", "cleanup"}

\* C11: is_monitoring() is true exactly when a worker was created for the
\* instance, the worker created last is executing and the instance's exit
\* signal is unset; it is false for an unstarted instance, after stop() has
\* returned and after the worker has terminated by itself; and the steps that
\* call it (the guards of monitor and stop) change no exit signal and no worker.
C11_IsMonitoring ==
    /\ [](\A i \in Instances :
            /\ IsMonitoring(i) <=> /\ WorkersOf(i) # {}
                                   /\ Running(LastWorker(i))
                                   /\ ~ExitSet(i)
            /\ threadRef[i] = None => ~IsMonitoring(i)
            /\ stopped[i] # -1 => ~IsMonitoring(i)
            /\ (threadRef[i] # None /\ threads[threadRef[i]].pc = "dead") => ~IsMonitoring(i))
    /\ [][\A c \in Callers, i \in Instances :
            (Stop(c, i) \/ \E s \in Streams \cup {None} : Monitor(c, i, s)) =>
                /\ exitRef' = exitRef /\ threadRef' = threadRef
                /\ events' = events /\ threads' = threads]_vars

\* stop() was called while the worker ran: the signal is set, the worker is
\* still executing its burst, and is_monitoring() is already false
C11_Witness ==
    /\ threadRef[1] = 1 /\ Running(1) /\ threads[1].pc = "print"
    /\ ExitSet(1) /\ ~IsMonitoring(1)

\* ------------------------------------------------------------------ C12
\* the instance has had a worker and that worker has terminated
Stopped(i) == threadRef[i] # None /\ threads[threadRef[i]].pc = "dead"

\* a caller is inside stop() on instance i, past the guard
StopInProgress(i) ==
    \E c \in Callers : call[c].inst = i /\ call[c].pc \in {"stop_set", "stop_join", "joining"}

\* C12: monitor with a stream on a stopped instance (stopped by stop() or by
\* the worker itself) passes both guards; it then creates a new exit signal,
\* unset, and leaves the earlier signals as they were; it starts a new worker
\* on the stream it was given, and the instance is monitoring when monitor
\* returns; and while the instance's worker runs and stop() has not been called
\* on it, is_monitoring() is true.
C12_ReArmable ==
    /\ [](\A i \in Instances :
            (threadRef[i] # None /\ Running(threadRef[i]) /\ ~StopInProgress(i)) => IsMonitoring(i))
    /\ [][\A c \in Callers, i \in Instances, s \in Streams :
            (Monitor(c, i, s) /\ Stopped(i)) =>
                /\ call'[c].pc = "mon_exit" /\ call'[c].inst = i /\ call'[c].stream = s
                /\ sink' = sink]_vars
    /\ [][\A c \in Callers :
            MonitorExit(c) =>
                /\ exitRef'[call[c].inst] \notin DOMAIN events
                /\ ~events'[exitRef'[call[c].inst]]
                /\ \A e \in DOMAIN events : events'[e] = events[e]]_vars
    /\ [][\A c \in Callers, i \in Instances :
            (MonitorStart(c) /\ call[c].inst = i) =>
                /\ \A t \in WorkersOf(i) \ {threadRef[i]} : t < threadRef[i] /\ threads[t].pc = "dead"
                /\ threads'[threadRef[i]].stream = call[c].stream
                /\ threads'[threadRef[i]].pc = "loop"
                /\ IsMonitoring(i)']_vars

\* the first worker was stopped by stop(), whose exit signal is still set; a
\* second monitor on the same stream has started a second worker, which has
\* written the rest of the stream, and the instance is monitoring
C12_Witness ==
    /\ Len(threads) = 2 /\ threads[1].inst = 1 /\ threads[2].inst = 1
    /\ events = <<TRUE, FALSE>> /\ exitRef[1] = 2 /\ threadRef[1] = 2
    /\ threads[1].pc = "dead" /\ threads[2].stream = 1
    /\ IsMonitoring(1)
    /\ Len(SelectSeq(sink, LAMBDA e : e.kind = "line" /\ e.by = 2)) >= 1

\* ------------------------------------------------------------------ C13
\* C13 as stated: once a monitor call on an instance has returned, whatever
\* its argument, the instance has a worker handle.
C13_HandleIffMonitorCalled ==
    [][\A c \in Callers, i \in Instances :
          (\/ (\E s \in Streams \cup {None} : Monitor(c, i, s)) /\ call'[c] = Idle
           \/ MonitorStart(c) /\ call[c].inst = i)
             => threadRef'[i] # None]_vars

\* C13, amended: the worker handle is present exactly when a worker was created
\* for the instance; only monitor's thread creation, in a call with a stream
\* that is not None, sets it; monitor(None) leaves it as it is, absent on an
\* unstarted instance; a monitor call with a stream on an instance without a
\* handle goes on to create one and returns with the handle present; and no
\* step resets a handle that is present.
C13_HandleSetOnceByMonitor ==
    /\ [](\A i \in Instances : threadRef[i] # None <=> WorkersOf(i) # {})
    /\ [][\A i \in Instances :
            /\ threadRef'[i] # threadRef[i] =>
                  \E c \in Callers :
                      MonitorThread(c) /\ call[c].inst = i /\ call[c].stream # None
            /\ threadRef[i] # None => threadRef'[i] # None
            /\ \A c \in Callers :
                  /\ Monitor(c, i, None) => threadRef'[i] = threadRef[i]
                  /\ \A s \in Streams :
                        (Monitor(c, i, s) /\ threadRef[i] = None) => call'[c].pc = "mon_exit"
                  /\ (MonitorStart(c) /\ call[c].inst = i) => threadRef'[i] # None]_vars

\* monitor(None) was called on the unstarted instance and left it without a
\* handle; a monitor call with a stream then set the handle, and the handle
\* is still there now that the worker is dead
C13_Witness ==
    /\ Len(sink) >= 1 /\ sink[1].kind = "stream_none" /\ sink[1].inst = 1
    /\ ops = 2 /\ AllAtRest
    /\ threadRef[1] = 1 /\ threads[1].pc = "dead"

\* ------------------------------------------------------------------ C14
\* C14: under fair scheduling, a stop() call that has found the instance
\* monitoring returns: the exit signal is set, the instance's worker is dead
\* and the caller has the control back.
C14_StopTerminates ==
    \A c \in Callers, i \in Instances :
        (call[c].pc = "stop_set" /\ call[c].inst = i)
            ~> (AtRest(c) /\ stopped[i] # -1 /\ ExitSet(i) /\ AliveOf(i) = {})

\* stop() has returned; the stream is still open and the worker had read the
\* empty read that ends its burst, so it left because it saw the exit signal
C14_Witness ==
    /\ AllAtRest /\ stopped[1] # -1 /\ ExitSet(1)
    /\ threadRef[1] = 1 /\ threads[1].pc = "dead" /\ threads[1].eof
    /\ ~threads[1].err /\ ~closed[1]

\* ------------------------------------------------------------------ C15
\* worker t has left its loop without a read error
LeftNormally(t) == threads[t].pc \in {"cleanup", "dead"} /\ ~threads[t].err

\* C15: inside a burst the worker's steps do not depend on the exit signal: a
\* read that returns a line is followed by the print of that line, also when
\* the signal is set; the worker leaves a burst only by the empty read (or a
\* read error), so a worker that left without an error and printed a line had
\* read its burst to the end marker; and a worker that evaluates the loop
\* condition with the signal set goes to cleanup, not into another burst.
C15_CancelAtBurstBoundary ==
    /\ [](\A t \in DOMAIN threads :
            (LeftNormally(t) /\ Count(KindsBy(t), "line") > 0) => threads[t].eof)
    /\ [][\A t \in DOMAIN threads :
            LET s == threads[t].stream
            IN /\ (threads[t].pc = "read" /\ threads'[t] # threads[t]
                     /\ ReadLine(s) \notin {EOF, ValueError})
                     => threads'[t].pc = "print" /\ threads'[t].line = ReadLine(s)
               /\ (threads[t].pc = "print" /\ threads'[t] # threads[t])
                     => /\ threads'[t].pc = "read"
                        /\ sink' = Append(sink, Entry("line", threads[t].inst, t, s, Decode(threads[t].line)))
               /\ (threads[t].pc = "loop" /\ threads'[t] # threads[t] /\ ExitSet(threads[t].inst))
                     => threads'[t].pc = "cleanup"
               /\ (threads[t].pc \in {"read", "print"} /\ threads'[t].pc \in {"loop", "cleanup"})
                     => threads[t].pc = "read" /\ ReadLine(s) \in {EOF, ValueError}]_vars

\* stop() set the exit signal while the worker was in its burst: the worker
\* printed a line after that, read the burst to its end marker, and is dead
\* with both lines of the stream written; the stream is still open
C15_Witness ==
    /\ Len(threads) = 1 /\ threads[1].late /\ threads[1].eof /\ ~threads[1].err
    /\ threads[1].pc = "dead" /\ ExitSet(1) /\ ~closed[1]
    /\ WrittenOf(1) = <<Decode(1), Decode(2)>>

\* ------------------------------------------------------------------ C16
\* C16: a worker leaves its loop for cleanup, from the loop condition or from
\* a failed read, and from cleanup it ends; then it does nothing more. The
\* worker of a verbose instance has printed "finished" once when it has ended
\* and not before, as the last thing it prints, so after all of its lines; the
\* worker of an instance that is not verbose never prints it.
C16_CleanupOnceAndLast ==
    /\ [](\A t \in DOMAIN threads :
            LET k == KindsBy(t)
                v == verbose[threads[t].inst]
            IN /\ Count(k, "finished") = IF threads[t].pc = "dead" /\ v THEN 1 ELSE 0
               /\ (threads[t].pc = "dead" /\ v) => k[Len(k)] = "finished")
    /\ [][\A t \in DOMAIN threads :
            /\ threads[t].pc = "dead" => threads'[t] = threads[t] /\ OutBy(t)' = OutBy(t)
            /\ (threads[t].pc # "dead" /\ threads'[t].pc = "dead") => threads[t].pc = "cleanup"
            /\ (threads[t].pc = "cleanup" /\ threads'[t] # threads[t]) => threads'[t].pc = "dead"
            /\ (threads[t].pc \in {"loop", "read"} /\ threads'[t].pc \notin {"loop", "read", "print"})
                  => threads'[t].pc = "cleanup"]_vars

\* the worker of a verbose instance was stopped by stop(): it has printed its
\* two lines, then "finished", and is dead
C16_Witness ==
    /\ Len(threads) = 1 /\ threads[1].pc = "dead" /\ ExitSet(1) /\ ~threads[1].err
    /\ KindsBy(1) = <<"line", "line", "finished">>
    /\ stopped[1] = 2

\* ------------------------------------------------------------------ C17
\* C17: a worker that evaluates its loop condition when the exit signal of the
\* monitor call that spawned it is set leaves for cleanup, whatever monitor
\* calls other threads have made on the instance since.
C17_WorkerBoundToOwnSignal ==
    [][\A t \in DOMAIN threads :
          (threads[t].pc = "loop" /\ threads'[t] # threads[t] /\ events[threads[t].exit])
              => threads'[t].pc = "cleanup"]_vars

\* ------------------------------------------------------------------ C18
\* C18: the flag of an exit signal changes only in the set step of a stop()
\* call on the instance that refers to the signal, a call that passed stop's
\* guard; it changes from unset to set and never back; a new signal is created
\* unset; and when the instance's worker is dead and stop() has not been called
\* on the instance since the worker was created, the exit signal is unset.
C18_ExitSetOnlyByStop ==
    /\ [](\A i \in Instances :
            (Stopped(i) /\ stopped[i] = -1 /\ ~StopInProgress(i)) => ~ExitSet(i))
    /\ [][/\ \A e \in DOMAIN events :
               events'[e] # events[e] =>
                  /\ ~events[e] /\ events'[e]
                  /\ \E c \in Callers :
                        /\ StopSet(c) /\ call[c].pc = "stop_set"
                        /\ exitRef[call[c].inst] = e
          /\ \A e \in DOMAIN events' \ DOMAIN events : ~events'[e]]_vars

\* the worker ended by itself on a read error, with no stop() call: the exit
\* signal is unset
C18_Witness ==
    /\ ops = 0 /\ Len(threads) = 1 /\ threads[1].pc = "dead" /\ threads[1].err
    /\ events = <<FALSE>> /\ exitRef[1] = 1 /\ ~ExitSet(1)

\* ------------------------------------------------------------------ C19
\* C19 as stated: the counter stays at 0 and no worker ever yields after a
\* line.
C19_YieldNeverTriggers ==
    \A t \in DOMAIN threads : threads[t].buffer_size = 0 /\ ~threads[t].yields

\* C19, amended: the counter stays at 0, so the test "counter % 10 == 0" is
\* true after every line: a worker has yielded exactly when it has printed a
\* line, and every print of a line is followed by a yield.
C19_YieldAfterEveryLine ==
    /\ [](\A t \in DOMAIN threads :
            /\ threads[t].buffer_size = 0
            /\ threads[t].yields <=> Count(KindsBy(t), "line") > 0)
    /\ [][\A t \in DOMAIN threads :
            (threads[t].pc = "print" /\ threads'[t] # threads[t]) =>
                /\ YieldDue(threads[t].buffer_size)
                /\ threads'[t].yields
                /\ threads'[t].buffer_size = threads[t].buffer_size]_vars

\* a worker has printed the two lines of its burst, with the counter still 0,
\* and has yielded
C19_Witness ==
    \E t \in DOMAIN threads :
        /\ Count(KindsBy(t), "line") = 2
        /\ threads[t].buffer_size = 0 /\ threads[t].yields

\* ------------------------------------------------------------------ C20
\* C20: a worker that evaluates its loop condition enters a burst (and so
\* issues a read) exactly when the instance's exit signal is unset, the stream
\* is present and the stream reports not closed, whatever the stream's type.
C20_LoopEntryCondition ==
    [][\A t \in DOMAIN threads :
          (threads[t].pc = "loop" /\ threads'[t] # threads[t]) =>
              (threads'[t].pc = "read" <=>
                  /\ ~ExitSet(threads[t].inst)
                  /\ threads[t].stream # None
                  /\ ~closed[threads[t].stream])]_vars

====
